---- MODULE Spec2Model ----
(***************************************************************************)
(* Model of the acoustic time-of-flight firmware:                          *)
(*   src/main.py                 configuration and the call of the loop    *)
(*   src/pico_speed_of_sound.py  run_speed_of_sound, wait_for_falling,     *)
(*                               measure and the endless command loop      *)
(* The program is one sequential thread; pc is its position.  The host,    *)
(* the microphone line and the passing of time are the environment.        *)
(***************************************************************************)
EXTENDS Integers, Sequences, FiniteSets, TLC

VARIABLES
    pc,                         \* position of the single thread of control
    speaker_cfg,                \* speaker Pin: <<direction, pull>>
    microphone_cfg,             \* microphone Pin: <<direction, pull>>
    led_duty,                   \* duty cycle written to the status led PWM
    speaker,                    \* level driven on the transmit line (0/1)
    microphone,                 \* level read on the receive line (0/1)
    repetitions,                \* repetitions (command loop and measure)
    start_time,                 \* measure: start_time
    end_time,                   \* measure: end_time
    acoustic_wave_travel_time,  \* measure: acoustic_wave_travel_time
    inbuf,                      \* host lines sent and not yet read by input()
    out,                        \* lines printed since the last line was read
    n,                          \* history: the count of the last accepted line
    last,                       \* history: fate of the last line read
    pulsed,                     \* history: speaker.high() calls since last read
    delayed,                    \* history: sleep_ms calls since last read
    steps,                      \* history: steps of the current measurement
    sawHigh,                    \* history: a poll of this wait read high
    sinceEmit,                  \* ms since the last print, saturating
    sleepLeft                   \* ms the running sleep_ms still has to wait

vars == <<pc, speaker_cfg, microphone_cfg, led_duty, speaker, microphone,
          repetitions, start_time, end_time, acoustic_wave_travel_time,
          inbuf, out, n, last, pulsed, delayed, steps, sawHigh,
          sinceEmit, sleepLeft>>

hw == <<speaker_cfg, microphone_cfg, led_duty>>
locals == <<start_time, end_time, acoustic_wave_travel_time>>
hist == <<n, last, pulsed, delayed, steps, sawHigh>>

(***************************************************************************)
(* Bounds of the model.                                                    *)
(***************************************************************************)
\* the tick counter has 2^TicksBits values (2^30 on the hardware)
TicksBits == 5
\* the largest repetition count the host sends
MaxReps == 2
\* host lines that may wait unread in the channel
MaxPending == 1
\* the inter-measurement delay in ms passed to run_speed_of_sound
\* (main.py passes SAMPLE_DELAY_MS = 50; the model scales it down)
sample_delay_ms == 2

(***************************************************************************)
(* Text: lines are sequences of characters.                                *)
(***************************************************************************)
Digits == <<"0", "1", "2", "3", "4", "5", "6", "7", "8", "9">>

DigitSet == {Digits[i] : i \in 1..10}

DigitVal(c) == (CHOOSE i \in 1..10 : Digits[i] = c) - 1

\* the digits of a line once one leading sign is removed
Unsigned(s) == IF s # <<>> /\ Head(s) \in {"-", "+"} THEN Tail(s) ELSE s

\* int(s) succeeds: an optional sign followed by one or more decimal digits
IsInt(s) ==
    /\ Unsigned(s) # <<>>
    /\ \A i \in 1..Len(Unsigned(s)) : Unsigned(s)[i] \in DigitSet

RECURSIVE Magnitude(_)
Magnitude(d) ==
    IF d = <<>> THEN 0
    ELSE 10 * Magnitude(SubSeq(d, 1, Len(d) - 1)) + DigitVal(d[Len(d)])

\* the value int(s) returns when it succeeds
IntOf(s) ==
    IF Head(s) = "-" THEN 0 - Magnitude(Unsigned(s)) ELSE Magnitude(Unsigned(s))

RECURSIVE DecDigits(_)
DecDigits(v) ==
    IF v < 10 THEN <<Digits[v + 1]>>
    ELSE Append(DecDigits(v \div 10), Digits[(v % 10) + 1])

\* the line print(v) writes for an integer v
Str(v) == IF v < 0 THEN <<"-">> \o DecDigits(0 - v) ELSE DecDigits(v)

\* the lines the host sends: empty, not a number, a sign alone, negative,
\* and every count from 0 to MaxReps
Lines ==
    {<<>>, <<"a">>, <<"-">>, <<"-", "1">>} \cup {Str(k) : k \in 0..MaxReps}

(***************************************************************************)
(* The tick counter (utime.ticks_cpu, utime.ticks_diff).                   *)
(***************************************************************************)
TicksPeriod == 2 ^ TicksBits

TicksHalf == TicksPeriod \div 2

\* a local of measure that no statement has assigned yet
Unbound == 0 - 2 * TicksPeriod

\* ticks_cpu() values the loop reads: the counter runs freely, so a read
\* may return any phase; the two ends of its range give a difference of
\* zero, a wrap between start and end (start = period - 1, end = 0) and a
\* distance beyond half the period (start = 0, end = period - 1)
TickSamples == {0, TicksPeriod - 1}

\* naive subtraction in place of the wraparound-safe difference
ticks_diff_naive(end, start) == end - start

\* the difference reduced into [0, period) and never re-centred
ticks_diff_unsigned(end, start) == (end - start + TicksHalf) % TicksPeriod

\* utime.ticks_diff(end, start): the signed difference, reduced modulo the
\* period into [-period/2, period/2)
ticks_diff(end, start) ==
    ((end - start + TicksHalf) % TicksPeriod) - TicksHalf

(***************************************************************************)
(* Initial state: the interpreter is about to run run_speed_of_sound.      *)
(***************************************************************************)
Init ==
    /\ pc = "boot"
    /\ speaker_cfg = <<"none", "none">>
    /\ microphone_cfg = <<"none", "none">>
    /\ led_duty = 0
    /\ speaker = 0
    /\ microphone \in {0, 1}
    /\ repetitions = 0
    /\ start_time = Unbound
    /\ end_time = Unbound
    /\ acoustic_wave_travel_time = Unbound
    /\ inbuf = <<>>
    /\ out = <<>>
    /\ n = 0
    /\ last = "none"
    /\ pulsed = 0
    /\ delayed = 0
    /\ steps = <<>>
    /\ sawHigh = FALSE
    /\ sinceEmit = sample_delay_ms
    /\ sleepLeft = 0

(***************************************************************************)
(* Startup: lines 8-14 of run_speed_of_sound.                              *)
(***************************************************************************)
LED_BRIGHTNESS_PERCENT == 5

\* speaker = Pin(OUT, PULL_DOWN); microphone = Pin(IN, PULL_UP);
\* led.duty_u16(int(65535 * LED_BRIGHTNESS))
Startup ==
    /\ pc = "boot"
    /\ speaker_cfg' = <<"OUT", "PULL_DOWN">>
    /\ microphone_cfg' = <<"IN", "PULL_UP">>
    /\ led_duty' = (65535 * LED_BRIGHTNESS_PERCENT) \div 100
    /\ pc' = "input"
    /\ UNCHANGED <<speaker, microphone, repetitions, locals, inbuf, out,
                   hist, sinceEmit, sleepLeft>>

(***************************************************************************)
(* The endless loop: repetitions = int(input()) under a bare except, then  *)
(* measure(repetitions).                                                   *)
(***************************************************************************)
\* a rejected line starts a measurement all the same
ReadLine_measures_garbage ==
    /\ pc = "input"
    /\ inbuf # <<>>
    /\ inbuf' = Tail(inbuf)
    /\ out' = <<>>
    /\ pulsed' = 0
    /\ delayed' = 0
    /\ steps' = <<>>
    /\ sawHigh' = FALSE
    /\ IF IsInt(Head(inbuf))
       THEN /\ repetitions' = IntOf(Head(inbuf))
            /\ n' = IntOf(Head(inbuf))
            /\ last' = "accepted"
            /\ pc' = "while"
       ELSE /\ repetitions' = 1
            /\ n' = n
            /\ last' = "rejected"
            /\ pc' = "while"
    /\ UNCHANGED <<hw, speaker, microphone, locals, sinceEmit, sleepLeft>>

\* input() returns the oldest unread line (it blocks while there is none);
\* int() either yields the count, and measure is called with fresh locals,
\* or raises, and the except clause continues the loop
ReadLine ==
    /\ pc = "input"
    /\ inbuf # <<>>
    /\ inbuf' = Tail(inbuf)
    /\ out' = <<>>
    /\ pulsed' = 0
    /\ delayed' = 0
    /\ steps' = <<>>
    /\ sawHigh' = FALSE
    /\ IF IsInt(Head(inbuf))
       THEN /\ repetitions' = IntOf(Head(inbuf))
            /\ n' = IntOf(Head(inbuf))
            /\ last' = "accepted"
            /\ pc' = "while"
       ELSE /\ repetitions' = repetitions
            /\ n' = n
            /\ last' = "rejected"
            /\ pc' = "input"
    /\ UNCHANGED <<hw, speaker, microphone, locals, sinceEmit, sleepLeft>>

(***************************************************************************)
(* measure(repetitions), lines 22-43.                                      *)
(***************************************************************************)
\* the loop test compares with != 0, so a negative count never ends
WhileTest_nonzero ==
    /\ pc = "while"
    /\ IF repetitions # 0
       THEN /\ pc' = "high"
            /\ UNCHANGED locals
       ELSE /\ pc' = "input"
            /\ start_time' = Unbound
            /\ end_time' = Unbound
            /\ acoustic_wave_travel_time' = Unbound
    /\ UNCHANGED <<hw, speaker, microphone, repetitions, inbuf, out,
                   hist, sinceEmit, sleepLeft>>

\* while repetitions > 0: the body runs, or measure returns to the loop
\* and its locals are gone
WhileTest ==
    /\ pc = "while"
    /\ IF repetitions > 0
       THEN /\ pc' = "high"
            /\ UNCHANGED locals
       ELSE /\ pc' = "input"
            /\ start_time' = Unbound
            /\ end_time' = Unbound
            /\ acoustic_wave_travel_time' = Unbound
    /\ UNCHANGED <<hw, speaker, microphone, repetitions, inbuf, out,
                   hist, sinceEmit, sleepLeft>>

\* the pulse is counted but the line is never driven high
SpeakerHigh_no_drive ==
    /\ pc = "high"
    /\ speaker' = speaker
    /\ pulsed' = pulsed + 1
    /\ steps' = <<"high">>
    /\ sawHigh' = FALSE
    /\ pc' = "start"
    /\ UNCHANGED <<hw, microphone, repetitions, locals, inbuf, out, n, last,
                   delayed, sinceEmit, sleepLeft>>

\* speaker.high()
SpeakerHigh ==
    /\ pc = "high"
    /\ speaker' = 1
    /\ pulsed' = pulsed + 1
    /\ steps' = <<"high">>
    /\ sawHigh' = FALSE
    /\ pc' = "start"
    /\ UNCHANGED <<hw, microphone, repetitions, locals, inbuf, out, n, last,
                   delayed, sinceEmit, sleepLeft>>

\* start_time = ticks_cpu()
ReadStart ==
    /\ pc = "start"
    /\ \E t \in TickSamples : start_time' = t
    /\ steps' = Append(steps, "start")
    /\ pc' = "poll"
    /\ UNCHANGED <<hw, speaker, microphone, repetitions, end_time,
                   acoustic_wave_travel_time, inbuf, out, n, last, pulsed,
                   delayed, sawHigh, sinceEmit, sleepLeft>>

\* the poll gives up on a line that still reads high
Poll_timeout ==
    /\ pc = "poll"
    /\ steps' = IF steps[Len(steps)] = "poll" THEN steps
                ELSE Append(steps, "poll")
    /\ sawHigh' = (sawHigh \/ microphone = 1)
    /\ pc' \in (IF microphone = 1 THEN {"poll", "end"} ELSE {"end"})
    /\ UNCHANGED <<hw, speaker, microphone, repetitions, locals, inbuf, out,
                   n, last, pulsed, delayed, sinceEmit, sleepLeft>>

\* the poll looks at the host channel and drops the batch when a line waits
Poll_cancellable ==
    /\ pc = "poll"
    /\ steps' = IF steps[Len(steps)] = "poll" THEN steps
                ELSE Append(steps, "poll")
    /\ sawHigh' = (sawHigh \/ microphone = 1)
    /\ IF microphone = 1 /\ inbuf # <<>>
       THEN /\ inbuf' = Tail(inbuf)
            /\ pc' = "end"
       ELSE /\ inbuf' = inbuf
            /\ pc' = IF microphone = 1 THEN "poll" ELSE "end"
    /\ UNCHANGED <<hw, speaker, microphone, repetitions, locals, out,
                   n, last, pulsed, delayed, sinceEmit, sleepLeft>>

\* the wait ends on a high reading instead of a low one
Poll_waits_for_high ==
    /\ pc = "poll"
    /\ steps' = IF steps[Len(steps)] = "poll" THEN steps
                ELSE Append(steps, "poll")
    /\ sawHigh' = (sawHigh \/ microphone = 1)
    /\ pc' = IF microphone = 0 THEN "poll" ELSE "end"
    /\ UNCHANGED <<hw, speaker, microphone, repetitions, locals, inbuf, out,
                   n, last, pulsed, delayed, sinceEmit, sleepLeft>>

\* the wait asks for a falling edge: a low reading counts only after a
\* high one
Poll_edge ==
    /\ pc = "poll"
    /\ steps' = IF steps[Len(steps)] = "poll" THEN steps
                ELSE Append(steps, "poll")
    /\ sawHigh' = (sawHigh \/ microphone = 1)
    /\ pc' = IF microphone = 0 /\ sawHigh THEN "end" ELSE "poll"
    /\ UNCHANGED <<hw, speaker, microphone, repetitions, locals, inbuf, out,
                   n, last, pulsed, delayed, sinceEmit, sleepLeft>>

\* wait_for_falling: while pin.value(): pass -- one reading of the pin
Poll ==
    /\ pc = "poll"
    /\ steps' = IF steps[Len(steps)] = "poll" THEN steps
                ELSE Append(steps, "poll")
    /\ sawHigh' = (sawHigh \/ microphone = 1)
    /\ pc' = IF microphone = 1 THEN "poll" ELSE "end"
    /\ UNCHANGED <<hw, speaker, microphone, repetitions, locals, inbuf, out,
                   n, last, pulsed, delayed, sinceEmit, sleepLeft>>

\* wait_for_falling: return ticks_cpu(), assigned to end_time
ReadEnd ==
    /\ pc = "end"
    /\ \E t \in TickSamples : end_time' = t
    /\ steps' = Append(steps, "end")
    /\ pc' = "low"
    /\ UNCHANGED <<hw, speaker, microphone, repetitions, start_time,
                   acoustic_wave_travel_time, inbuf, out, n, last, pulsed,
                   delayed, sawHigh, sinceEmit, sleepLeft>>

\* the line is left as it is
SpeakerLow_no_drive ==
    /\ pc = "low"
    /\ speaker' = speaker
    /\ steps' = Append(steps, "low")
    /\ pc' = "diff"
    /\ UNCHANGED <<hw, microphone, repetitions, locals, inbuf, out, n, last,
                   pulsed, delayed, sawHigh, sinceEmit, sleepLeft>>

\* the line is released by turning the pin into an input
SpeakerLow_reconfigures ==
    /\ pc = "low"
    /\ speaker' = 0
    /\ speaker_cfg' = <<"IN", "PULL_DOWN">>
    /\ steps' = Append(steps, "low")
    /\ pc' = "diff"
    /\ UNCHANGED <<microphone_cfg, led_duty, microphone, repetitions, locals,
                   inbuf, out, n, last, pulsed, delayed, sawHigh, sinceEmit,
                   sleepLeft>>

\* speaker.low()
SpeakerLow ==
    /\ pc = "low"
    /\ speaker' = 0
    /\ steps' = Append(steps, "low")
    /\ pc' = "diff"
    /\ UNCHANGED <<hw, microphone, repetitions, locals, inbuf, out, n, last,
                   pulsed, delayed, sawHigh, sinceEmit, sleepLeft>>

\* acoustic_wave_travel_time = ticks_diff(end_time, start_time)
Diff ==
    /\ pc = "diff"
    /\ acoustic_wave_travel_time' = ticks_diff(end_time, start_time)
    /\ steps' = Append(steps, "diff")
    /\ pc' = "print"
    /\ UNCHANGED <<hw, speaker, microphone, repetitions, start_time, end_time,
                   inbuf, out, n, last, pulsed, delayed, sawHigh, sinceEmit,
                   sleepLeft>>

\* the results are collected and written only with the last repetition
PrintResult_batched ==
    /\ pc = "print"
    /\ out' = IF repetitions = 1
              THEN Append(out, [rep |-> pulsed,
                                text |-> Str(acoustic_wave_travel_time)])
              ELSE out
    /\ sinceEmit' = 0
    /\ steps' = Append(steps, "print")
    /\ pc' = "sleep"
    /\ UNCHANGED <<hw, speaker, microphone, repetitions, locals, inbuf, n,
                   last, pulsed, delayed, sawHigh, sleepLeft>>

\* print(acoustic_wave_travel_time): one line to the host, tagged here with
\* the repetition that produced it
PrintResult ==
    /\ pc = "print"
    /\ out' = Append(out, [rep |-> pulsed,
                           text |-> Str(acoustic_wave_travel_time)])
    /\ sinceEmit' = 0
    /\ steps' = Append(steps, "print")
    /\ pc' = "sleep"
    /\ UNCHANGED <<hw, speaker, microphone, repetitions, locals, inbuf, n,
                   last, pulsed, delayed, sawHigh, sleepLeft>>

\* the sleep waits one millisecond less than asked
SleepBegin_short ==
    /\ pc = "sleep"
    /\ sleepLeft' = sample_delay_ms - 1
    /\ delayed' = delayed + 1
    /\ pc' = "sleeping"
    /\ UNCHANGED <<hw, speaker, microphone, repetitions, locals, inbuf, out,
                   n, last, pulsed, steps, sawHigh, sinceEmit>>

\* the sleep is skipped after the last repetition of the batch
SleepBegin_between_only ==
    /\ pc = "sleep"
    /\ IF repetitions = 1
       THEN /\ pc' = "dec"
            /\ UNCHANGED <<sleepLeft, delayed>>
       ELSE /\ sleepLeft' = sample_delay_ms
            /\ delayed' = delayed + 1
            /\ pc' = "sleeping"
    /\ UNCHANGED <<hw, speaker, microphone, repetitions, locals, inbuf, out,
                   n, last, pulsed, steps, sawHigh, sinceEmit>>

\* sleep_ms(sample_delay_ms) is entered
SleepBegin ==
    /\ pc = "sleep"
    /\ sleepLeft' = sample_delay_ms
    /\ delayed' = delayed + 1
    /\ pc' = "sleeping"
    /\ UNCHANGED <<hw, speaker, microphone, repetitions, locals, inbuf, out,
                   n, last, pulsed, steps, sawHigh, sinceEmit>>

\* sleep_ms returns once the delay has run out
SleepEnd ==
    /\ pc = "sleeping"
    /\ sleepLeft = 0
    /\ pc' = "dec"
    /\ UNCHANGED <<hw, speaker, microphone, repetitions, locals, inbuf, out,
                   hist, sinceEmit, sleepLeft>>

\* the counter is left as it was
Decrement_skipped ==
    /\ pc = "dec"
    /\ repetitions' = repetitions
    /\ pc' = "while"
    /\ UNCHANGED <<hw, speaker, microphone, locals, inbuf, out, hist,
                   sinceEmit, sleepLeft>>

\* repetitions -= 1
Decrement ==
    /\ pc = "dec"
    /\ repetitions' = repetitions - 1
    /\ pc' = "while"
    /\ UNCHANGED <<hw, speaker, microphone, locals, inbuf, out, hist,
                   sinceEmit, sleepLeft>>

(***************************************************************************)
(* The environment: time, the receive line, the host.                      *)
(***************************************************************************)
\* one millisecond passes
Tick ==
    /\ sinceEmit' = IF sinceEmit < sample_delay_ms THEN sinceEmit + 1
                    ELSE sinceEmit
    /\ sleepLeft' = IF pc = "sleeping" /\ sleepLeft > 0 THEN sleepLeft - 1
                    ELSE sleepLeft
    /\ UNCHANGED <<pc, hw, speaker, microphone, repetitions, locals, inbuf,
                   out, hist>>

\* the receiving transducer pulls the line low
MicFall ==
    /\ microphone = 1
    /\ microphone' = 0
    /\ UNCHANGED <<pc, hw, speaker, repetitions, locals, inbuf, out, hist,
                   sinceEmit, sleepLeft>>

\* the pull-up brings the line back high
MicRise ==
    /\ microphone = 0
    /\ microphone' = 1
    /\ UNCHANGED <<pc, hw, speaker, repetitions, locals, inbuf, out, hist,
                   sinceEmit, sleepLeft>>

\* the host sends one more line
HostSend ==
    /\ Len(inbuf) < MaxPending
    /\ \E l \in Lines : inbuf' = Append(inbuf, l)
    /\ UNCHANGED <<pc, hw, speaker, microphone, repetitions, locals, out,
                   hist, sinceEmit, sleepLeft>>

Next ==
    \/ Startup
    \/ ReadLine
    \/ WhileTest
    \/ SpeakerHigh
    \/ ReadStart
    \/ Poll
    \/ ReadEnd
    \/ SpeakerLow
    \/ Diff
    \/ PrintResult
    \/ SleepBegin
    \/ SleepEnd
    \/ Decrement
    \/ Tick
    \/ MicFall
    \/ MicRise
    \/ HostSend

Spec == Init /\ [][Next]_vars

(***************************************************************************)
(* The loop under its scheduling: the single thread always takes its next  *)
(* step when it has one, time passes, and the receive line reads low at    *)
(* some poll of every wait (the echo always arrives).                      *)
(***************************************************************************)
Thread ==
    \/ Startup
    \/ ReadLine
    \/ WhileTest
    \/ SpeakerHigh
    \/ ReadStart
    \/ Poll
    \/ ReadEnd
    \/ SpeakerLow
    \/ Diff
    \/ PrintResult
    \/ SleepBegin
    \/ SleepEnd
    \/ Decrement

\* the poll that reads the line low and leaves the wait
EchoSeen == Poll /\ pc' = "end"

FairSpec ==
    /\ Spec
    /\ WF_vars(Thread)
    /\ WF_vars(Tick)
    /\ WF_vars(MicFall)
    /\ SF_vars(EchoSeen)

(***************************************************************************)
(* The tick difference on its own: every pair of counter values a          *)
(* measurement may have read, then the difference and the print.           *)
(***************************************************************************)
InitDiff ==
    /\ pc = "diff"
    /\ speaker_cfg = <<"OUT", "PULL_DOWN">>
    /\ microphone_cfg = <<"IN", "PULL_UP">>
    /\ led_duty = (65535 * LED_BRIGHTNESS_PERCENT) \div 100
    /\ speaker = 0
    /\ microphone = 0
    /\ repetitions = 1
    /\ start_time \in 0..(TicksPeriod - 1)
    /\ end_time \in 0..(TicksPeriod - 1)
    /\ acoustic_wave_travel_time = Unbound
    /\ inbuf = <<>>
    /\ out = <<>>
    /\ n = 1
    /\ last = "accepted"
    /\ pulsed = 1
    /\ delayed = 0
    /\ steps = <<"high", "start", "poll", "end", "low">>
    /\ sawHigh = FALSE
    /\ sinceEmit = sample_delay_ms
    /\ sleepLeft = 0

NextDiff ==
    \/ Diff
    \/ PrintResult

SpecTicksDiff == InitDiff /\ [][NextDiff]_vars

(***************************************************************************)
(* Vocabulary of the properties.                                           *)
(***************************************************************************)
\* measure is running (the command loop is not blocked in input())
InBatch == pc \notin {"boot", "input"}

\* repetitions of the batch whose line is still to be written
Remaining ==
    IF pc \in {"sleep", "sleeping", "dec"} THEN repetitions - 1
    ELSE repetitions

\* the forward distance from start to end on the tick counter
Forward(end, start) == (end - start) % TicksPeriod

\* the value of a printed line
LineValue(i) == IntOf(out[i].text)

\* inbuf has only grown at its tail in this step
OnlyAppended ==
    \/ inbuf' = inbuf
    \/ /\ Len(inbuf') = Len(inbuf) + 1
       /\ SubSeq(inbuf', 1, Len(inbuf)) = inbuf

\* the order of the steps of one measurement
Order == <<"high", "start", "poll", "end", "low", "diff", "print">>

IsPrefix(s, t) == Len(s) <= Len(t) /\ s = SubSeq(t, 1, Len(s))

(***************************************************************************)
(* C1. An accepted count n >= 0 runs exactly n measurements and writes     *)
(* exactly n lines before the next line is read: at every point the        *)
(* repetitions still to be written plus the lines written equal n, the     *)
(* i-th line comes from the i-th repetition, and back in input() all n     *)
(* pulses and lines have happened.                                         *)
(***************************************************************************)
ExactlyNLinesInOrder ==
    (last = "accepted" /\ n >= 0) =>
        /\ Remaining + Len(out) = n
        /\ \A i \in 1..Len(out) : out[i].rep = i
        /\ pc = "input" => (Len(out) = n /\ pulsed = n /\ repetitions = 0)

BatchOfTwoComplete ==
    /\ pc = "input"
    /\ last = "accepted"
    /\ n = 2
    /\ Len(out) = 2
    /\ out[2].rep = 2

(***************************************************************************)
(* C2. A line that does not parse as an integer writes nothing, asserts    *)
(* no pulse, performs no delay and leaves the loop reading the next line.  *)
(***************************************************************************)
RejectedLineIsSilent ==
    last = "rejected" =>
        /\ pc = "input"
        /\ out = <<>>
        /\ pulsed = 0
        /\ delayed = 0
        /\ speaker = 0
        /\ sleepLeft = 0

RejectedLineRead ==
    /\ last = "rejected"
    /\ pc = "input"
    /\ inbuf = <<>>

DelayBetweenEmissions ==
    (pc = "print" /\ Len(out) >= 1) => sinceEmit >= sample_delay_ms

SecondEmissionDue ==
    /\ pc = "print"
    /\ Len(out) = 1
    /\ delayed = 1

(***************************************************************************)
(* C6. A count of zero or below runs no repetition: no pulse, no line, no  *)
(* delay; measure only tests its loop condition and the loop is back in    *)
(* input().                                                                *)
(***************************************************************************)
NonPositiveCountRunsNothing ==
    (last = "accepted" /\ n <= 0) =>
        /\ pc \in {"while", "input"}
        /\ repetitions = n
        /\ out = <<>>
        /\ pulsed = 0
        /\ delayed = 0
        /\ speaker = 0

NegativeCountReturned ==
    /\ last = "accepted"
    /\ n < 0
    /\ pc = "input"

(***************************************************************************)
(* C7. While measure runs no line is read: the host channel only grows,    *)
(* the accepted count stays, and a line arriving in the batch changes      *)
(* neither the position, the remaining repetitions nor the output.         *)
(***************************************************************************)
NoReadDuringBatch ==
    [][InBatch =>
          /\ OnlyAppended
          /\ n' = n
          /\ last' = last
          /\ (inbuf' # inbuf =>
                 /\ pc' = pc
                 /\ repetitions' = repetitions
                 /\ out' = out)]_vars

InputPendingInBatch ==
    /\ pc = "poll"
    /\ inbuf # <<>>
    /\ sawHigh
    /\ Len(out) = 1
    /\ repetitions = 1

(***************************************************************************)
(* C8. The poll has no timeout: as long as the receive line reads high the *)
(* wait does not return, nothing is written, nothing is read and the       *)
(* transmit line stays high.                                               *)
(***************************************************************************)
PollNeverTimesOut ==
    [][(pc = "poll" /\ microphone = 1 /\ microphone' = 1) =>
          /\ pc' = "poll"
          /\ speaker' = 1
          /\ out' = out
          /\ OnlyAppended
          /\ end_time' = end_time]_vars

BlockedInPoll ==
    /\ pc = "poll"
    /\ sawHigh
    /\ microphone = 1
    /\ speaker = 1

(***************************************************************************)
(* C9. Results are written as they are measured: the line of repetition i  *)
(* is written before the pulse of repetition i+1, and at most one          *)
(* measurement (a pulse whose line is not yet written) exists at a time.   *)
(***************************************************************************)
RealTimeEmission ==
    /\ Len(out) <= pulsed
    /\ pulsed <= Len(out) + 1
    /\ pc = "high" => pulsed = Len(out)
    /\ pulsed = Len(out) + 1
           <=> pc \in {"start", "poll", "end", "low", "diff", "print"}

SecondPulseAfterFirstLine ==
    /\ pc = "start"
    /\ pulsed = 2
    /\ Len(out) = 1

(***************************************************************************)
(* C10. One measurement runs: line high, start read, poll until low, end   *)
(* read, line low, difference, print.  The transmit line is high from the  *)
(* pulse until the step after the end read, so during the whole poll; the  *)
(* start is read with the line high; the end is read before the line goes  *)
(* low.                                                                    *)
(***************************************************************************)
MeasurementOrder ==
    /\ IsPrefix(steps, Order)
    /\ speaker = 1 <=> pc \in {"start", "poll", "end", "low"}
    /\ pc \in {"poll", "end"} => (start_time # Unbound /\ speaker = 1)
    /\ pc = "low" => (end_time # Unbound /\ speaker = 1)
    /\ pc = "print" => (steps = SubSeq(Order, 1, 6) /\ speaker = 0)

MeasurementDone ==
    /\ pc = "sleep"
    /\ steps = Order
    /\ sawHigh
    /\ speaker = 0

(***************************************************************************)
(* C11. When the receive line reads low at some poll after every pulse,    *)
(* every accepted request terminates: all its repetitions are written and  *)
(* the loop is blocked in input() again.                                   *)
(***************************************************************************)
AcceptedRequestTerminates ==
    (pc = "while" /\ last = "accepted")
        ~> (/\ pc = "input"
            /\ last = "accepted"
            /\ repetitions <= 0
            /\ Len(out) = IF n > 0 THEN n ELSE 0)

BatchEndedAfterWaiting ==
    /\ pc = "input"
    /\ last = "accepted"
    /\ n = 2
    /\ delayed = 2
    /\ sawHigh
    /\ microphone = 1

(***************************************************************************)
(* C12. The transmit line is idle-low: it is low whenever the loop is      *)
(* blocked in input() (reading and parsing a line is one step from there)  *)
(* or in the inter-measurement delay, and high only between speaker.high() *)
(* and speaker.low() of the one measurement whose line is not yet written. *)
(***************************************************************************)
TransmitIdleLow ==
    /\ pc \in {"boot", "input", "while", "high", "diff", "print", "sleep",
               "sleeping", "dec"} => speaker = 0
    /\ speaker = 1 =>
           /\ pc \in {"start", "poll", "end", "low"}
           /\ pulsed = Len(out) + 1
    /\ pc # "boot" => speaker_cfg = <<"OUT", "PULL_DOWN">>

LowDuringDelay ==
    /\ pc = "sleeping"
    /\ sleepLeft > 0
    /\ speaker = 0
    /\ pulsed = 1

(***************************************************************************)
(* C13. The direction and pull of both lines and the duty cycle of the     *)
(* status indicator are set once at startup; no later step of the command  *)
(* loop or of a measurement changes them.                                  *)
(***************************************************************************)
Configured ==
    /\ speaker_cfg = <<"OUT", "PULL_DOWN">>
    /\ microphone_cfg = <<"IN", "PULL_UP">>
    /\ led_duty = 3276

ConfigurationFrozen ==
    /\ [](pc # "boot" => Configured)
    /\ [][pc # "boot" => UNCHANGED hw]_vars
    /\ [][pc = "boot" => (UNCHANGED hw \/ pc' = "input")]_vars

ConfiguredAfterTwoMeasurements ==
    /\ pc = "dec"
    /\ Len(out) = 2
    /\ Configured

(***************************************************************************)
(* C14. The wait detects a low level, not a falling edge: when the first   *)
(* poll after the pulse reads the receive line low, the wait returns at    *)
(* once, no poll of it having read high, and the line of that repetition   *)
(* is written all the same.                                                *)
(***************************************************************************)
LowLevelEndsWait ==
    /\ [][(pc = "poll" /\ microphone = 0 /\ steps' # steps) =>
              (pc' = "end" /\ ~sawHigh')]_vars
    /\ []((pc \in {"end", "low", "diff", "print"} /\ ~sawHigh) =>
              pulsed = Len(out) + 1)
    /\ []((pc = "sleep" /\ ~sawHigh) =>
              (Len(out) = pulsed /\ out[Len(out)].rep = pulsed))

SecondLineWithoutHighReading ==
    /\ pc = "sleep"
    /\ ~sawHigh
    /\ Len(out) = 2
    /\ microphone = 0

(***************************************************************************)
(* C15. The delay follows every repetition, the last one included: a batch *)
(* of n >= 1 repetitions performs n delays, and after its last line the    *)
(* loop is back in input() only once sample_delay_ms have passed.          *)
(***************************************************************************)
DelayAfterEveryRepetition ==
    (last = "accepted" /\ n >= 1) =>
        /\ pc \in {"sleeping", "dec"} => delayed = Len(out)
        /\ pc \in {"dec", "while", "input"} =>
               (delayed = Len(out) /\ sinceEmit >= sample_delay_ms)
        /\ pc = "input" => delayed = n

SingleRepetitionDelayed ==
    /\ pc = "input"
    /\ last = "accepted"
    /\ n = 1
    /\ delayed = 1
    /\ Len(out) = 1

====
